---- MODULE Spec2Model ----
(***************************************************************************)
(* Answer resolution and fallback cascade of the document QA assistant:    *)
(* the per-turn script of main.py, the display functions, the response     *)
(* normalizer, the roster extractor and the intent detectors of            *)
(* components.py.                                                          *)
(*                                                                         *)
(* Python strings that the code searches by substring (prompts) are        *)
(* sequences of tokens; a token stands for a word of the prompt.  Short    *)
(* texts that the code only compares (answer texts, origins) are strings.  *)
(* Japanese literals of the source are written as ASCII stand-ins, listed  *)
(* where they are defined.                                                 *)
(***************************************************************************)
EXTENDS Naturals, Integers, Sequences, FiniteSets, TLC

VARIABLES
    \* ---- the turn script (main.py) ----
    pc,            \* "idle" | "llm" (generator call in flight) | "off"
    mode,          \* st.session_state.mode
    messages,      \* st.session_state.messages
    chat_message,  \* the prompt of the current turn
    llm,           \* what the generator call produced in this turn
    rendered,      \* the UI calls made in the assistant part of this turn
    exc,           \* the exception that ended the script run, or NoExc
    ran,           \* the strategies run in this turn
    fs,            \* the CSV files of the data root, by path
    \* ---- pure functions under test ----
    arg,           \* the input of the function applied
    res            \* its result, or NotRun

vars == <<pc, mode, messages, chat_message, llm, rendered, exc, ran, fs, arg, res>>

(***************************************************************************)
(* Python values                                                           *)
(***************************************************************************)
None == "<None>"
NoExc == "none"
NotRun == [tag |-> "notrun"]

\* A call's result: a returned value or a raised exception.
Ret(v) == [exc |-> NoExc, val |-> v]
Raise(e) == [exc |-> e, val |-> None]

RECURSIVE SeqToSet(_)
SeqToSet(s) == IF s = <<>> THEN {} ELSE {Head(s)} \cup SeqToSet(Tail(s))
Reverse(seq) == [i \in 1..Len(seq) |-> seq[Len(seq) + 1 - i]]

(***************************************************************************)
(* Prompts.  DeptHR stands for the department name "jinji-bu" of           *)
(* components.py:100; the list words and the employee words are those of   *)
(* components.py:482-483 in order; "ichiranka" contains "ichiran" as the   *)
(* source's fifth list word contains the first.                            *)
(***************************************************************************)
DeptHR == "jinjibu"
DeptSales == "eigyoubu"
ListWords == <<"ichiran", "risuto", "rekkyo", "matome", "ichiranka">>
EmployeeWords == <<"juugyouin", "shain", "menbaa", "jinbutsu", "jin-in">>
\* components.py:490-499; "kankyou e no torikumi" and "kankyou houshin"
\* contain "kankyou".
EnvKeywords == <<"kankyou-e-no-torikumi", "kankyou", "sasutenabiriti", "ESG",
                 "datsutanso", "kaabon-nyuutoraru", "kankyou-houshin", "ISO14001">>

\* The keywords a token contains as substrings.
SubstringsOf(t) ==
    CASE t = "ichiranka" -> {"ichiranka", "ichiran"}
      [] t = "kankyou-e-no-torikumi" -> {"kankyou-e-no-torikumi", "kankyou"}
      [] t = "kankyou-houshin" -> {"kankyou-houshin", "kankyou"}
      [] OTHER -> {t}

\* Python's `k in p` for a keyword k and a prompt p.
InStr(k, p) == \E i \in 1..Len(p) : k \in SubstringsOf(p[i])

AnyIn(ks, p) == \E j \in 1..Len(ks) : InStr(ks[j], p)

(***************************************************************************)
(* components.py:475-484.  dept_name is a token or None; `None not in p`   *)
(* raises TypeError.                                                       *)
(***************************************************************************)
\* A list word or an employee word taken as enough.
MutDeptListingEitherWord(prompt, dept_name) ==
    IF prompt = <<>> THEN Ret(FALSE)
    ELSE IF dept_name = None THEN Raise("TypeError")
    ELSE IF ~InStr(dept_name, prompt) THEN Ret(FALSE)
    ELSE Ret(AnyIn(ListWords, prompt) \/ AnyIn(EmployeeWords, prompt))

_looks_like_dept_listing_request(prompt, dept_name) ==
    IF prompt = <<>> THEN Ret(FALSE)
    ELSE IF dept_name = None THEN Raise("TypeError")
    ELSE IF ~InStr(dept_name, prompt) THEN Ret(FALSE)
    ELSE Ret(AnyIn(ListWords, prompt) /\ AnyIn(EmployeeWords, prompt))

\* components.py:121-123
detect_dept_listing(prompt, dept_name) ==
    _looks_like_dept_listing_request(prompt, dept_name)

\* components.py:487-501
_looks_like_environment_request(prompt) ==
    IF prompt = <<>> THEN FALSE ELSE AnyIn(EnvKeywords, prompt)

(***************************************************************************)
(* Response normalizer, components.py:274-385.                             *)
(*                                                                         *)
(* A response is [isDict, attrs, keys, repr, srcAttr, srcKeys]: attrs are  *)
(* the values getattr finds (None when the attribute is missing), keys the *)
(* values resp.get finds when resp is a dict, repr is str(resp); srcAttr   *)
(* are the items of the attribute source_documents and srcKeys[k] those    *)
(* of resp[k] (<<>> when missing or not iterable).                         *)
(***************************************************************************)
TextFields == <<"answer", "content", "text", "output_text", "result", "message", "response">>
SourceFields == <<"source_documents", "sources", "context", "documents", "docs",
                  "relevant_docs", "retrieved_docs">>
OriginKeys == <<"source", "file_path", "path", "url">>
ItemOriginKeys == <<"source", "url", "path">>
PageKeys == <<"page_number", "page", "page_index", "pageIndex", "page_label">>
ContentKeys == <<"page_content", "content", "text">>

\* Values Python's `or` skips: None, the empty string, and a falsy value
\* that is not a string (0, False, an empty list), written "<0>".
Falsy == {None, "", "<0>"}
Truthy(v) == v \notin Falsy

\* a or b or ... over the fields `names` of the mapping f, from index i:
\* the first truthy value, else the last value.
RECURSIVE OrChain(_, _, _)
OrChain(f, names, i) ==
    IF i >= Len(names) THEN f[names[i]]
    ELSE IF Truthy(f[names[i]]) THEN f[names[i]]
    ELSE OrChain(f, names, i + 1)

\* The mapping keys probed before the attributes.
MutTextKeysFirst(resp) ==
    LET a == OrChain(resp.attrs, TextFields, 1)
        k == IF resp.isDict THEN OrChain(resp.keys, TextFields, 1) ELSE None
    IN  IF Truthy(k) THEN k ELSE IF Truthy(a) THEN a ELSE resp.repr

\* components.py:286-302
ExtractText(resp) ==
    LET a == OrChain(resp.attrs, TextFields, 1)
        k == IF resp.isDict THEN OrChain(resp.keys, TextFields, 1) ELSE None
    IN  IF Truthy(a) THEN a ELSE IF Truthy(k) THEN k ELSE resp.repr

\* components.py:305-321
RECURSIVE ConcatFields(_, _, _)
ConcatFields(f, names, i) ==
    IF i > Len(names) THEN <<>>
    ELSE f[names[i]] \o ConcatFields(f, names, i + 1)

RawSources(resp) ==
    resp.srcAttr \o (IF resp.isDict THEN ConcatFields(resp.srcKeys, SourceFields, 1) ELSE <<>>)

(***************************************************************************)
(* Pages, components.py:388-420.  A page value is a tagged record: an int  *)
(* (bool included, as isinstance(v, int) holds for it), a float, a string  *)
(* whose stripped text is all digits, another string, or None.             *)
(***************************************************************************)
PNone == [t |-> "none", v |-> 0]
PInt(n) == [t |-> "int", v |-> n]
PBool(n) == [t |-> "bool", v |-> n]
PFloat(n) == [t |-> "float", v |-> n]
PDigits(n) == [t |-> "digits", v |-> n]
PText == [t |-> "text", v |-> 0]

\* coerce, components.py:390-402.  A bool is returned as it is; as a dict key
\* and in comparisons True is 1 and False is 0.
coerce(v) ==
    CASE v.t = "none" -> PNone
      [] v.t \in {"int", "bool"} -> PInt(v.v)
      [] v.t = "digits" -> PInt(v.v)
      [] OTHER -> PNone

RECURSIVE FirstCoercible(_)
FirstCoercible(cands) ==
    IF cands = <<>> THEN PNone
    ELSE IF coerce(Head(cands)) # PNone THEN coerce(Head(cands))
    ELSE FirstCoercible(Tail(cands))

\* A mapping m is [orig, page, loc, content]; a missing key reads as None.
_extract_page_from_meta(m) ==
    FirstCoercible([i \in 1..Len(PageKeys) |-> m.page[PageKeys[i]]]
                   \o [i \in 1..Len(PageKeys) |-> m.loc[PageKeys[i]]])

(***************************************************************************)
(* Snippets, components.py:455-461.  A content value is None, "" or a      *)
(* text; " s1 " is "s1" with surrounding whitespace, "long1" and "long2"   *)
(* are texts of SnippetLimit + 1 code points, and Cut(c) is c[:limit-1]    *)
(* followed by the ellipsis.                                               *)
(***************************************************************************)
SnippetLimit == 280

Strip(t) ==
    CASE t = " s1 " -> "s1"
      [] t = " " -> ""
      [] t = " \"\" " -> "\"\""
      [] OTHER -> t

TextLen(t) ==
    CASE t \in {"long1", "long2"} -> SnippetLimit + 1
      [] t = "" -> 0
      [] OTHER -> 2

Cut(t) == CASE t = "long1" -> "long1-cut" [] t = "long2" -> "long2-cut" [] OTHER -> t

_make_snippet(c) ==
    IF ~Truthy(c) THEN None
    ELSE IF TextLen(Strip(c)) <= SnippetLimit THEN Strip(c)
    ELSE Cut(Strip(c))

(***************************************************************************)
(* Items, components.py:325-367.  An item is                               *)
(*   [isDict, attrMeta, keyMeta, meta, self, pageContent]                  *)
(* attrMeta and keyMeta say what item.metadata and item["metadata"] are:   *)
(* "absent", "none", "dict" (the mapping `meta`) or "other"; self is the   *)
(* item's own mapping when it is a dict; pageContent is the attribute      *)
(* page_content, or "absent".                                              *)
(***************************************************************************)
Hashable(src) == src # "<list>"

ItemMeta(item) ==
    \* "dict" with the mapping, or "nodict"
    IF item.attrMeta \in {"dict", "other"} THEN
        [isDict |-> item.attrMeta = "dict", m |-> item.meta]
    ELSE IF item.isDict THEN
        IF item.keyMeta = "absent" THEN [isDict |-> TRUE, m |-> item.self]
        ELSE [isDict |-> item.keyMeta = "dict", m |-> item.meta]
    ELSE [isDict |-> FALSE, m |-> item.meta]

ItemSrc(item) ==
    LET md == ItemMeta(item)
        s1 == IF md.isDict THEN OrChain(md.m.orig, OriginKeys, 1) ELSE None
    IN  IF s1 = None /\ item.isDict THEN OrChain(item.self.orig, ItemOriginKeys, 1)
        ELSE s1

ItemPage(item) ==
    LET md == ItemMeta(item)
        s1 == IF md.isDict THEN OrChain(md.m.orig, OriginKeys, 1) ELSE None
        p1 == IF md.isDict THEN _extract_page_from_meta(md.m) ELSE PNone
    IN  IF s1 = None /\ item.isDict /\ p1 = PNone THEN _extract_page_from_meta(item.self)
        ELSE p1

ItemContent(item) ==
    IF item.pageContent # "absent" THEN item.pageContent
    ELSE IF item.isDict THEN OrChain(item.self.content, ContentKeys, 1)
    ELSE None

RECURSIVE Normalized(_)
Normalized(raw) ==
    IF raw = <<>> THEN <<>>
    ELSE LET item == Head(raw)
             src == ItemSrc(item)
         IN  (IF Truthy(src)
              THEN <<[source |-> src, page |-> ItemPage(item),
                      snippet |-> _make_snippet(ItemContent(item))]>>
              ELSE <<>>) \o Normalized(Tail(raw))

\* components.py:369-376
SrcKey(s) == <<s.source, s.page>>

RECURSIVE DedupFrom(_, _)
DedupFrom(norm, seen) ==
    IF norm = <<>> THEN <<>>
    ELSE IF SrcKey(Head(norm)) \in seen THEN DedupFrom(Tail(norm), seen)
    ELSE <<Head(norm)>> \o DedupFrom(Tail(norm), seen \cup {SrcKey(Head(norm))})

\* No deduplication.
MutDedupKeepAll(norm) == norm

Dedup(norm) == DedupFrom(norm, {})

\* components.py:378-383: dedup[:k]; topK is Unset when ct has no
\* RETRIEVAL_TOP_K, else <<k>>.
Unset == <<>>

\* No truncation.
MutTopKKeepAll(dedup, topK) == dedup

TopK(dedup, topK) ==
    IF topK = Unset THEN dedup
    ELSE LET k == topK[1]
         IN  IF k >= 0 THEN SubSeq(dedup, 1, IF k < Len(dedup) THEN k ELSE Len(dedup))
             ELSE SubSeq(dedup, 1, IF Len(dedup) + k > 0 THEN Len(dedup) + k ELSE 0)

\* components.py:274-385: (text, sources), or TypeError from the set of seen
\* keys when an origin is not hashable.
_extract_answer_and_sources(resp, topK) ==
    LET norm == Normalized(RawSources(resp))
    IN  IF \E i \in 1..Len(norm) : ~Hashable(norm[i].source)
        THEN Raise("TypeError")
        ELSE [exc |-> NoExc, text |-> ExtractText(resp), sources |-> TopK(Dedup(norm), topK)]

(***************************************************************************)
(* Tabular roster extractor, components.py:126-210 and 524-653.            *)
(*                                                                         *)
(* A CSV file is [path, okEnc, deptCol, exact, partial, other, ragged]:    *)
(* okEnc are the encodings under which it reads without error, deptCol     *)
(* says a header contains a department-like substring, exact counts the    *)
(* rows with a department column equal to the HR department (or, without   *)
(* such a column, a cell holding just that name), partial the rows where   *)
(* the name only occurs inside a longer cell, other the remaining rows;    *)
(* ragged says the first data row has more fields than the header.         *)
(* A UI call is [ui, path, rows].                                          *)
(***************************************************************************)
Encodings == <<"utf-8", "utf-8-sig", "cp932">>
MinRows == 4

Ev(ui) == [ui |-> ui, path |-> None, rows |-> 0]
EvTable(ui, path, rows) == [ui |-> ui, path |-> path, rows |-> rows]

\* streamlit, imported at components.py:9, requires pandas, so the import of
\* components.py:139 and 542 succeeds wherever the module itself loads.
PandasAvailable == TRUE

\* UTF-8 as the only encoding tried.
MutFirstEncodingUtf8Only(file, i) == IF "utf-8" \in file.okEnc THEN 1 ELSE 0

\* The index of the first encoding that reads the file, 0 when none does.
RECURSIVE FirstEncoding(_, _)
FirstEncoding(file, i) ==
    IF i > Len(Encodings) THEN 0
    ELSE IF Encodings[i] \in file.okEnc THEN i
    ELSE FirstEncoding(file, i + 1)

\* The encoding the file is read with, None when it reads under none.
EncodingUsed(file) ==
    IF FirstEncoding(file, 1) = 0 THEN None ELSE Encodings[FirstEncoding(file, 1)]

\* components.py:565-576 / 155-164 (pandas), 606-618 / 185-194 (csv module)
MatchedRows(file, dept_name) ==
    IF dept_name # DeptHR THEN 0
    ELSE IF file.deptCol THEN file.exact
    ELSE file.exact + file.partial

TotalRows(file) == file.exact + file.partial + file.other

\* A file with exactly min_rows matching rows rejected.
MutBelowThresholdInclusive(n, min_rows) == n <= min_rows

\* components.py:582, 165, 195, 619
BelowThreshold(n, min_rows) == n < min_rows

\* A file that reads under no encoding raising out of the loop body.
MutFileStepReadErrorRaises(file, dept_name, min_rows) ==
    IF file.okEnc = {} THEN "raise"
    ELSE IF file.exact + file.partial + file.other = 0 THEN "next"
    ELSE IF (IF file.deptCol THEN file.exact ELSE file.exact + file.partial) < min_rows
         THEN "next"
    ELSE "render"

\* One pass of the loop body over a file: "next" (continue), "render", or
\* "raise" (csv module only: the header list holds None, components.py:607).
FileStep(file, dept_name, min_rows) ==
    IF FirstEncoding(file, 1) = 0 THEN "next"
    ELSE IF TotalRows(file) = 0 THEN "next"
    ELSE IF ~PandasAvailable /\ file.ragged THEN "raise"
    ELSE IF PandasAvailable /\ MatchedRows(file, dept_name) = 0 THEN "next"
    ELSE IF BelowThreshold(MatchedRows(file, dept_name), min_rows) THEN "next"
    ELSE "render"

\* The loop over the candidate files: [exc, ret, events, read].
RECURSIVE RosterLoop(_, _, _, _)
RosterLoop(files, dept_name, min_rows, title) ==
    IF files = <<>> THEN [exc |-> NoExc, ret |-> FALSE, events |-> <<>>, read |-> <<>>]
    ELSE LET f == Head(files)
             step == FileStep(f, dept_name, min_rows)
         IN  CASE step = "render" ->
                    [exc |-> NoExc, ret |-> TRUE,
                     events |-> <<Ev(title),
                                  EvTable("dataframe", f.path, MatchedRows(f, dept_name))>>,
                     read |-> <<f.path>>]
               [] step = "raise" ->
                    [exc |-> "TypeError", ret |-> FALSE, events |-> <<>>, read |-> <<f.path>>]
               [] OTHER ->
                    LET rest == RosterLoop(Tail(files), dept_name, min_rows, title)
                    IN  [rest EXCEPT !.read = <<f.path>> \o @]

\* A path that is not in the data root reads under no encoding.
Missing(path) ==
    [path |-> path, okEnc |-> {}, deptCol |-> FALSE, exact |-> 0, partial |-> 0,
     other |-> 0, ragged |-> FALSE]

Basename(path) == IF path = "/old/a.csv" THEN "a.csv" ELSE path
IsCsvName(src) == src \in {"a.csv", "b.csv", "c.csv", "d.csv", "/old/a.csv", "zz.csv"}
PathsOf(root) == {root[i].path : i \in 1..Len(root)}
FileAt(root, path) ==
    IF path \in PathsOf(root) THEN root[CHOOSE i \in 1..Len(root) : root[i].path = path]
    ELSE Missing(path)

\* components.py:638-653
_resolve_local_data_path(path, root) ==
    IF path \in PathsOf(root) THEN path
    ELSE IF Basename(path) \in PathsOf(root) THEN Basename(path)
    ELSE None

\* components.py:526-535
RECURSIVE CsvPaths(_, _)
CsvPaths(sources, root) ==
    IF sources = <<>> THEN <<>>
    ELSE LET src == Head(sources).source
             resolved == _resolve_local_data_path(src, root)
         IN  (IF IsCsvName(src)
              THEN <<IF Truthy(resolved) THEN resolved ELSE src>>
              ELSE <<>>) \o CsvPaths(Tail(sources), root)

\* components.py:524-635
_try_render_department_listing(sources, dept_name, min_rows, root) ==
    LET csv_paths == CsvPaths(sources, root)
    IN  RosterLoop([i \in 1..Len(csv_paths) |-> FileAt(root, csv_paths[i])],
                   dept_name, min_rows, "roster_title")

\* components.py:126-210: every exception is turned into False.
render_department_listing_from_data_root(dept_name, min_rows, root) ==
    LET r == RosterLoop(root, dept_name, min_rows, "roster_title_csv_search")
    IN  IF r.exc # NoExc THEN [r EXCEPT !.exc = NoExc, !.ret = FALSE] ELSE r

(***************************************************************************)
(* Keyword fallback searcher, components.py:213-267, over the data root.   *)
(* The CSV loader reads a file as UTF-8 and yields one document per row;   *)
(* a row of the HR department holds the department's name.                 *)
(***************************************************************************)
Lower(t) == IF t = "ESG" THEN "esg" ELSE t
LowerSeq(p) == [i \in 1..Len(p) |-> Lower(p[i])]

\* `q in text` for two token sequences.
Contains(text, q) ==
    \E off \in 0..(Len(text) - Len(q)) : \A i \in 1..Len(q) : text[off + i] = q[i]

RowTexts(file) ==
    [i \in 1..file.exact |-> <<"busho", DeptHR>>]
    \o [i \in 1..file.partial |-> <<"bikou", DeptHR, "kenmu">>]
    \o [i \in 1..file.other |-> <<"busho", DeptSales>>]

\* str(query).strip(), components.py:225: the query without the whitespace
\* tokens " " at its ends.
RECURSIVE StripLeft(_)
StripLeft(q) == IF q # <<>> /\ Head(q) = " " THEN StripLeft(Tail(q)) ELSE q
\* The query taken as it is.
MutStripNone(q) == q

StripSeq(q) == Reverse(StripLeft(Reverse(StripLeft(q))))

\* The loop over the documents of one file (components.py:245-257), which
\* ends after the append that fills `room`: the hits and the number of
\* documents inspected.
RECURSIVE FileScan(_, _, _, _)
FileScan(docs, path, lower_q, room) ==
    IF docs = <<>> \/ room <= 0 THEN [hits |-> <<>>, inspected |-> 0]
    ELSE LET hit == Contains(LowerSeq(Head(docs)), lower_q)
             rest == FileScan(Tail(docs), path, lower_q, IF hit THEN room - 1 ELSE room)
         IN  [hits |-> (IF hit THEN <<[source |-> path, page |-> PNone, snippet |-> "s1"]>>
                        ELSE <<>>) \o rest.hits,
              inspected |-> 1 + rest.inspected]

FileHits(docs, path, lower_q, room) == FileScan(docs, path, lower_q, room).hits

\* The search without the cap: every file loaded, every document inspected.
RECURSIVE MutTreeScanNoCap(_, _, _, _)
MutTreeScanNoCap(files, lower_q, max_hits, acc) ==
    IF files = <<>> THEN acc
    ELSE LET f == Head(files)
             scan == IF "utf-8" \notin f.okEnc THEN [hits |-> <<>>, inspected |-> 0]
                     ELSE FileScan(RowTexts(f), f.path, lower_q, Len(RowTexts(f)))
         IN  MutTreeScanNoCap(Tail(files), lower_q, max_hits,
                              [hits |-> acc.hits \o scan.hits,
                               loaded |-> Append(acc.loaded, f.path),
                               inspected |-> Append(acc.inspected, scan.inspected)])

\* components.py:235-259.  A file whose loader raises is passed over without
\* the test of the cap; within a file the cap is tested after each append,
\* and again after the file.  acc is [hits, loaded, inspected]: the hits so
\* far, the files given to a loader and the documents inspected in each.
RECURSIVE TreeScan(_, _, _, _)
TreeScan(files, lower_q, max_hits, acc) ==
    IF files = <<>> THEN acc
    ELSE LET f == Head(files)
         IN  IF "utf-8" \notin f.okEnc
             THEN TreeScan(Tail(files), lower_q, max_hits,
                           [acc EXCEPT !.loaded = Append(@, f.path),
                                       !.inspected = Append(@, 0)])
             ELSE LET room == IF max_hits - Len(acc.hits) < 1 THEN 1
                              ELSE max_hits - Len(acc.hits)
                      scan == FileScan(RowTexts(f), f.path, lower_q, room)
                      now == [hits |-> acc.hits \o scan.hits,
                              loaded |-> Append(acc.loaded, f.path),
                              inspected |-> Append(acc.inspected, scan.inspected)]
                  IN  IF Len(now.hits) >= max_hits THEN now
                      ELSE TreeScan(Tail(files), lower_q, max_hits, now)

NoScan == [hits |-> <<>>, loaded |-> <<>>, inspected |-> <<>>]

TreeHits(files, lower_q, max_hits, hits) ==
    TreeScan(files, lower_q, max_hits, [NoScan EXCEPT !.hits = hits]).hits

\* components.py:213-267: [ret, events, scan]
render_keyword_search_fallback(query, max_hits, root) ==
    LET lower_q == LowerSeq(StripSeq(query))
    IN  IF lower_q = <<>> THEN [ret |-> FALSE, events |-> <<>>, scan |-> NoScan]
        ELSE LET scan == TreeScan(root, lower_q, max_hits, NoScan)
             IN  IF scan.hits = <<>>
                 THEN [ret |-> FALSE, events |-> <<Ev("warning_no_hits")>>, scan |-> scan]
                 ELSE [ret |-> TRUE,
                       events |-> <<Ev("info_search_hits"),
                                    EvTable("sources", None, Len(scan.hits))>>,
                       scan |-> scan]

(***************************************************************************)
(* Display functions, components.py:67-118 and 423-452.                    *)
(*                                                                         *)
(* NoAnswerMsg is ct.INQUIRY_NO_MATCH_ANSWER and NoDocMatchMsg is          *)
(* ct.NO_DOC_MATCH_ANSWER.  A display call returns                         *)
(*   [exc, events, content, ran].                                          *)
(***************************************************************************)
NoAnswerMsg == "INQUIRY_NO_MATCH_ANSWER"
NoDocMatchMsg == "NO_DOC_MATCH_ANSWER"
ModeSearch == "ANSWER_MODE_1"
ModeContact == "ANSWER_MODE_2"

\* initialize.py:120 and utils.py:142 read RETRIEVAL_TOP_K with this default.
RETRIEVAL_TOP_K == 5

IsStr(t) == t \notin {None, "<0>", "<obj>", "<list>"}
IsBlank(t) == IsStr(t) /\ Strip(t) = ""

\* components.py:423-452
_render_sources(sources) ==
    IF sources = <<>> THEN <<Ev("caption_no_sources")>>
    ELSE <<EvTable("sources", None, Len(sources))>>

Shown(events, content) == [exc |-> NoExc, events |-> events, content |-> content, ran |-> {}]
Failed(e) == [exc |-> e, events |-> <<>>, content |-> None, ran |-> {}]

\* components.py:67-86
display_search_llm_response(resp) ==
    LET n == _extract_answer_and_sources(resp, <<RETRIEVAL_TOP_K>>)
    IN  IF n.exc # NoExc THEN Failed(n.exc)
        ELSE LET text == IF IsStr(n.text) /\ Strip(n.text) \in {"\"\"", "''"} THEN ""
                         ELSE n.text
             IN  IF IsBlank(text) THEN
                     IF n.sources # <<>>
                     THEN Shown(<<Ev("info_docs_found")>> \o _render_sources(n.sources),
                                "DOCS_FOUND_MESSAGE")
                     ELSE Shown(<<EvTable("warning", NoDocMatchMsg, 0)>>, NoDocMatchMsg)
                 ELSE Shown(<<EvTable("markdown", text, 0)>> \o _render_sources(n.sources),
                            text)

\* components.py:464-472
RECURSIVE LastUserContent(_)
LastUserContent(msgs) ==
    IF msgs = <<>> THEN <<>>
    ELSE IF msgs[Len(msgs)].role = "user" THEN msgs[Len(msgs)].content
    ELSE LastUserContent(SubSeq(msgs, 1, Len(msgs) - 1))

_last_user_prompt(msgs) == LastUserContent(msgs)

\* components.py:504-521
_render_environment_fallback(has_sources) ==
    <<Ev(IF has_sources THEN "info_env_with_sources" ELSE "warning_env_no_sources"),
      Ev("env_fallback")>>

\* components.py:105-113: the topic fallback, else the no-answer warning.
GenericOrNoMatch(user_prompt, sources, tried, before) ==
    IF _looks_like_environment_request(user_prompt) THEN
        [Shown(before \o _render_environment_fallback(sources # <<>>)
                   \o _render_sources(sources), "GENERAL_INFO_MESSAGE")
            EXCEPT !.ran = tried \cup {"generic"}]
    ELSE [Shown(before \o <<EvTable("warning", NoAnswerMsg, 0)>>
                    \o _render_sources(sources), NoAnswerMsg)
             EXCEPT !.ran = tried]

\* The topic fallback tried before the roster.
MutContactGenericFirst(user_prompt, sources, wantsRoster, roster) ==
    IF _looks_like_environment_request(user_prompt) \/ ~wantsRoster THEN
        GenericOrNoMatch(user_prompt, sources, {}, <<>>)
    ELSE IF roster.exc # NoExc THEN
        [Failed(roster.exc) EXCEPT !.events = roster.events, !.ran = {"roster_sources"}]
    ELSE IF roster.ret THEN
        [Shown(roster.events \o _render_sources(sources), "ROSTER_SHOWN_MESSAGE")
            EXCEPT !.ran = {"roster_sources"}]
    ELSE GenericOrNoMatch(user_prompt, sources, {"roster_sources"}, roster.events)

\* The fallback part of components.py:98-113, with the roster result known.
ContactFallback(user_prompt, sources, wantsRoster, roster) ==
    IF wantsRoster /\ roster.exc # NoExc THEN
        [Failed(roster.exc) EXCEPT !.events = roster.events, !.ran = {"roster_sources"}]
    ELSE IF wantsRoster /\ roster.ret THEN
        [Shown(roster.events \o _render_sources(sources), "ROSTER_SHOWN_MESSAGE")
            EXCEPT !.ran = {"roster_sources"}]
    ELSE GenericOrNoMatch(user_prompt, sources,
                          IF wantsRoster THEN {"roster_sources"} ELSE {},
                          IF wantsRoster THEN roster.events ELSE <<>>)

\* components.py:89-118
display_contact_llm_response(resp, msgs, root) ==
    LET n == _extract_answer_and_sources(resp, <<RETRIEVAL_TOP_K>>)
        user_prompt == _last_user_prompt(msgs)
    IN  IF n.exc # NoExc THEN Failed(n.exc)
        ELSE LET is_empty == IsBlank(n.text)
                 is_no_answer == IsStr(n.text) /\ Strip(n.text) = NoAnswerMsg
             IN  IF (is_empty \/ is_no_answer) /\ n.sources # <<>> THEN
                     ContactFallback(
                         user_prompt, n.sources,
                         _looks_like_dept_listing_request(user_prompt, DeptHR).val,
                         _try_render_department_listing(n.sources, DeptHR, MinRows, root))
                 ELSE Shown(<<EvTable("markdown", n.text, 0)>> \o _render_sources(n.sources),
                            n.text)

(***************************************************************************)
(* Building responses and items.                                           *)
(***************************************************************************)
ToSet(seq) == {seq[i] : i \in 1..Len(seq)}

NoText == [n \in ToSet(TextFields) |-> None]
NoSources == [n \in ToSet(SourceFields) |-> <<>>]
NoMapping ==
    [orig |-> [k \in ToSet(OriginKeys) |-> None],
     page |-> [k \in ToSet(PageKeys) |-> PNone],
     loc |-> [k \in ToSet(PageKeys) |-> PNone],
     content |-> [k \in ToSet(ContentKeys) |-> None]]

\* A LangChain Document: metadata {"source": src, "page": page} and page_content.
Document(src, page, content) ==
    [isDict |-> FALSE, attrMeta |-> "dict", keyMeta |-> "absent",
     meta |-> [NoMapping EXCEPT !.orig["source"] = src, !.page["page"] = page],
     self |-> NoMapping, pageContent |-> content]

\* The dict utils.get_llm_response returns (utils.py:91-117).
ChainResult(answer, context) ==
    [isDict |-> TRUE, attrs |-> NoText, keys |-> [NoText EXCEPT !["answer"] = answer],
     repr |-> "<repr>", srcAttr |-> <<>>,
     srcKeys |-> [NoSources EXCEPT !["context"] = context]]

(***************************************************************************)
(* Bounds                                                                  *)
(***************************************************************************)
MaxFields == 2      \* text fields a response sets, attributes and keys together
MaxItems == 3       \* source items of a response
MaxPromptLen == 3   \* words of a prompt given to the intent detectors
MaxFiles == 2       \* CSV files of the data root
MaxRows == 4        \* matching rows of a CSV file
MaxTurns == 1       \* user turns of a session

Idle ==
    /\ pc = "off" /\ mode = None /\ messages = <<>> /\ chat_message = <<>>
    /\ llm = NotRun /\ rendered = <<>> /\ exc = NoExc /\ ran = {} /\ fs = <<>>

mainVars == <<pc, mode, messages, chat_message, llm, rendered, exc, ran, fs>>

(***************************************************************************)
(* SpecText: the text extraction of the normalizer applied to responses of *)
(* every shape: objects with attributes, dicts, dict subclasses that also  *)
(* carry attributes, plain values.                                         *)
(***************************************************************************)
TextVals == {"", "A", "B"}
Slots == {"attr", "key"} \X ToSet(TextFields)
Assignments(n) == UNION {[S -> TextVals] : S \in {T \in SUBSET Slots : Cardinality(T) <= n}}
FieldsOf(as, kind) ==
    [n \in ToSet(TextFields) |-> IF <<kind, n>> \in DOMAIN as THEN as[<<kind, n>>] ELSE None]
HasKind(as, kind) == \E sl \in DOMAIN as : sl[1] = kind

TextResponses(n) ==
    {[isDict |-> x[2], attrs |-> FieldsOf(x[1], "attr"), keys |-> FieldsOf(x[1], "key"),
      repr |-> x[3], srcAttr |-> <<>>, srcKeys |-> NoSources] :
        x \in {y \in Assignments(n) \X BOOLEAN \X {"<repr>", "", "plain"} :
                /\ (HasKind(y[1], "key") => y[2])
                \* a plain string has no field and is its own str()
                /\ (y[3] # "<repr>" => ~y[2] /\ DOMAIN y[1] = {})}}

InitText ==
    /\ Idle
    /\ arg \in TextResponses(MaxFields)
    /\ res = NotRun

NormalizeText ==
    /\ res = NotRun
    /\ res' = _extract_answer_and_sources(arg, Unset)
    /\ UNCHANGED <<mainVars, arg>>

SpecText == InitText /\ [][NormalizeText]_vars

\* The positions of the priority list whose value in f is present and non-empty.
PresentIn(f) == {i \in 1..Len(TextFields) : Truthy(f[TextFields[i]])}
MinOf(S) == CHOOSE i \in S : \A j \in S : i <= j

\* C9 as stated: the text is the value of the first name of the priority list
\* that is present and non-empty as an attribute or as a mapping key, and the
\* textual representation only when there is none.
C9_FirstPresentName ==
    res # NotRun =>
        LET pa == PresentIn(arg.attrs)
            pk == IF arg.isDict THEN PresentIn(arg.keys) ELSE {}
        IN  IF pa \cup pk = {} THEN res.text = arg.repr
            ELSE LET n == TextFields[MinOf(pa \cup pk)]
                 IN  \/ Truthy(arg.attrs[n]) /\ res.text = arg.attrs[n]
                     \/ arg.isDict /\ Truthy(arg.keys[n]) /\ res.text = arg.keys[n]

\* C9 amended: attributes are probed before mapping keys.  The text is the
\* first present and non-empty attribute of the priority list; when there is
\* none and the response is a dict, the first present and non-empty key; when
\* there is none either, the textual representation.
C9_AttributesBeforeKeys ==
    res # NotRun =>
        LET pa == PresentIn(arg.attrs)
            pk == IF arg.isDict THEN PresentIn(arg.keys) ELSE {}
        IN  /\ res.exc = NoExc
            /\ pa # {} => res.text = arg.attrs[TextFields[MinOf(pa)]]
            /\ pa = {} /\ pk # {} => res.text = arg.keys[TextFields[MinOf(pk)]]
            /\ pa = {} /\ pk = {} => res.text = arg.repr

\* A dict subclass whose attribute comes later in the list than its key, an
\* object with two attributes, and a dict with two keys, have been normalized.
C9_Witness ==
    /\ res # NotRun
    /\ arg.isDict
    /\ PresentIn(arg.attrs) # {} /\ PresentIn(arg.keys) # {}
    /\ MinOf(PresentIn(arg.keys)) < MinOf(PresentIn(arg.attrs))
    /\ res.text = arg.attrs[TextFields[MinOf(PresentIn(arg.attrs))]]
    /\ res.text # arg.keys[TextFields[MinOf(PresentIn(arg.keys))]]

(***************************************************************************)
(* SpecSources: the source extraction of the normalizer applied to chain   *)
(* results whose context holds documents and items without an origin, with *)
(* RETRIEVAL_TOP_K unset or set.                                           *)
(***************************************************************************)
SourceItems ==
    {Document(o, pg, c) :
        o \in {"a.csv", "b.pdf"}, pg \in {PNone, PInt(1), PDigits(1)}, c \in {"s1", "s2"}}
    \cup {Document(None, PInt(1), "s1")}

ItemLists(n) == UNION {[1..m -> SourceItems] : m \in 0..n}

InitSources ==
    /\ Idle
    /\ arg \in [resp : {ChainResult("A", items) : items \in ItemLists(MaxItems)},
                topK : {Unset, <<0>>, <<1>>, <<2>>}]
    /\ res = NotRun

NormalizeSources ==
    /\ res = NotRun
    /\ res' = _extract_answer_and_sources(arg.resp, arg.topK)
    /\ UNCHANGED <<mainVars, arg>>

SpecSources == InitSources /\ [][NormalizeSources]_vars

\* The items of the input that resolve to an origin, in input order.
InputRefs == Normalized(RawSources(arg.resp))
FirstIndex(refs, key) == MinOf({i \in 1..Len(refs) : SrcKey(refs[i]) = key})

\* C10: the returned source list holds no two entries with the same
\* (origin, page) pair; each entry is the first-seen input item of its pair,
\* snippet included; the entries are in the order of their first appearance;
\* and without top-K truncation every pair of the input is kept.
C10_DedupFirstSeenInOrder ==
    (res # NotRun /\ res.exc = NoExc) =>
        LET out == res.sources
            refs == InputRefs
        IN  /\ \A i, j \in 1..Len(out) : i # j => SrcKey(out[i]) # SrcKey(out[j])
            /\ \A i \in 1..Len(out) :
                  /\ \E k \in 1..Len(refs) : SrcKey(refs[k]) = SrcKey(out[i])
                  /\ out[i] = refs[FirstIndex(refs, SrcKey(out[i]))]
            /\ \A i, j \in 1..Len(out) :
                  i < j => FirstIndex(refs, SrcKey(out[i])) < FirstIndex(refs, SrcKey(out[j]))
            /\ arg.topK = Unset =>
                  \A k \in 1..Len(refs) : \E i \in 1..Len(out) : SrcKey(out[i]) = SrcKey(refs[k])

\* Three items, the first and the third with the same origin and page (the
\* page once as an int and once as a digit string) and different snippets,
\* gave two entries, the first with the first item's snippet.
C10_Witness ==
    /\ res # NotRun /\ res.exc = NoExc
    /\ Len(InputRefs) = 3 /\ Len(res.sources) = 2
    /\ SrcKey(InputRefs[1]) = SrcKey(InputRefs[3])
    /\ SrcKey(InputRefs[1]) # SrcKey(InputRefs[2])
    /\ InputRefs[1].snippet # InputRefs[3].snippet
    /\ res.sources[1] = InputRefs[1]
    /\ res.sources[2] = InputRefs[2]

\* C11: with top-K configured as K >= 0 and n deduplicated sources, the
\* normalizer returns the first min(K, n) of them in their order; with top-K
\* not configured it returns all n.
C11_TopKPrefix ==
    (res # NotRun /\ res.exc = NoExc) =>
        LET distinct == Dedup(InputRefs)
            n == Len(distinct)
        IN  IF arg.topK = Unset THEN res.sources = distinct
            ELSE LET K == arg.topK[1]
                     m == IF K < n THEN K ELSE n
                 IN  /\ Len(res.sources) = m
                     /\ \A i \in 1..m : res.sources[i] = distinct[i]

\* With K = 2 and three distinct sources the first two were returned.
C11_Witness ==
    /\ res # NotRun /\ res.exc = NoExc
    /\ arg.topK = <<2>>
    /\ Len(Dedup(InputRefs)) = 3
    /\ res.sources = SubSeq(Dedup(InputRefs), 1, 2)

(***************************************************************************)
(* SpecItems: the normalizer applied to chain results whose context holds  *)
(* one item of any shape, alone or next to an ordinary document: objects   *)
(* with a metadata mapping, dicts with a "metadata" key, flat dicts, items *)
(* whose metadata is not a mapping, origins under every key, an origin     *)
(* that is a list, and pages of every kind.                                *)
(***************************************************************************)
OriginVals == {"", "x", "y"}
OriginSlots == {"meta", "self"} \X ToSet(OriginKeys)
OriginAssignments(n) ==
    UNION {[S -> OriginVals] : S \in {T \in SUBSET OriginSlots : Cardinality(T) <= n}}

MappingOf(as, kind) ==
    [NoMapping EXCEPT !.orig =
        [k \in ToSet(OriginKeys) |-> IF <<kind, k>> \in DOMAIN as THEN as[<<kind, k>>] ELSE None]]

\* The shapes of an item: "attr" is an object with a metadata mapping,
\* "dict" a dict with a "metadata" mapping and keys of its own, "flat" a dict
\* without a "metadata" key, "other" a dict whose "metadata" is not a mapping.
ItemOf(shape, as) ==
    [isDict |-> shape # "attr",
     attrMeta |-> IF shape = "attr" THEN "dict" ELSE "absent",
     keyMeta |-> CASE shape = "dict" -> "dict" [] shape = "other" -> "other" [] OTHER -> "absent",
     meta |-> MappingOf(as, "meta"),
     self |-> MappingOf(as, "self"),
     pageContent |-> IF shape = "attr" THEN "s2" ELSE "absent"]

OriginItems(n) ==
    {ItemOf(x[1], x[2]) :
        x \in {y \in {"attr", "dict", "flat", "other"} \X OriginAssignments(n) :
                /\ (y[1] = "attr" => ~HasKind(y[2], "self"))
                /\ (y[1] \in {"flat", "other"} => ~HasKind(y[2], "meta"))}}

PageVals ==
    {PNone, PInt(0), PInt(2), PInt(0 - 1), PBool(0), PBool(1), PFloat(2), PDigits(7), PText}

\* A document whose page is given under the key "page", or under "page" of
\* the nested mapping "loc".
PageItems ==
    {Document("p.pdf", v, "s1") : v \in PageVals}
    \cup {[Document("p.pdf", PNone, "s1") EXCEPT !.meta.loc["page"] = v] : v \in PageVals}

\* A document whose metadata gives the origin as a list of paths.
ListOriginItem == Document("<list>", PInt(1), "s1")

GoodItem == Document("g.pdf", PInt(1), "s1")

Around(item) == {<<item>>, <<GoodItem, item>>, <<item, GoodItem>>}

InitItems ==
    /\ Idle
    /\ \E item \in OriginItems(MaxFields) \cup PageItems \cup {ListOriginItem},
          answer \in {"A", "<obj>"} :
          \E items \in Around(item) :
              arg = [resp |-> ChainResult(answer, items), item |-> item]
    /\ res = NotRun

NormalizeItems ==
    /\ res = NotRun
    /\ res' = _extract_answer_and_sources(arg.resp, Unset)
    /\ UNCHANGED <<mainVars, arg>>

SpecItems == InitItems /\ [][NormalizeItems]_vars

\* C12: the normalizer never raises: for every response it returns a text and
\* a source list.
C12_NeverRaises ==
    res # NotRun => res.exc = NoExc

\* The first non-empty value of a mapping among source, file_path, path, url.
FirstNonEmpty(f) ==
    LET P == {i \in 1..Len(OriginKeys) : Truthy(f[OriginKeys[i]])}
    IN  IF P = {} THEN None ELSE f[OriginKeys[MinOf(P)]]

HasNestedMeta(item) == item.attrMeta = "dict" \/ (item.isDict /\ item.keyMeta = "dict")

\* The origin of an item by the stated rule: the nested metadata first, then
\* the item itself, each by the same priority of keys.
ClaimedOrigin(item) ==
    LET m == IF HasNestedMeta(item) THEN FirstNonEmpty(item.meta.orig) ELSE None
    IN  IF m # None THEN m ELSE FirstNonEmpty(item.self.orig)

ContextOf(resp) == resp.srcKeys["context"]

\* C18: an item yields an entry iff it has a non-empty origin among source,
\* file_path, path, url in its metadata or, failing that, at item level, and
\* the entry carries the first such value; items without one are dropped
\* without error and the other items are kept.
C18_OriginByPriority ==
    (res # NotRun /\ arg.item \in OriginItems(MaxFields)) =>
        LET ctx == ContextOf(arg.resp)
        IN  /\ res.exc = NoExc
            /\ [i \in 1..Len(res.sources) |-> res.sources[i].source] =
                   SelectSeq([i \in 1..Len(ctx) |-> ClaimedOrigin(ctx[i])],
                             LAMBDA o : o # None)

\* The page the item was given, under "page" or under "page" of "loc".
GivenPage(item) ==
    IF item.meta.page["page"] # PNone THEN item.meta.page["page"] ELSE item.meta.loc["page"]

\* C19: every entry's page is absent or a non-negative integer: an integer
\* is kept, an all-digit string becomes its integer, and a negative number,
\* a boolean, a float or another string is absent.
C19_PageAbsentOrNonNegative ==
    (res # NotRun /\ res.exc = NoExc) =>
        /\ \A i \in 1..Len(res.sources) :
              \/ res.sources[i].page = PNone
              \/ res.sources[i].page.t = "int" /\ res.sources[i].page.v >= 0
        /\ arg.item \in PageItems =>
              LET v == GivenPage(arg.item)
                  page == CASE v.t = "int" /\ v.v >= 0 -> PInt(v.v)
                            [] v.t = "digits" -> PInt(v.v)
                            [] OTHER -> PNone
              IN  \E i \in 1..Len(res.sources) :
                      res.sources[i].source = "p.pdf" /\ res.sources[i].page = page

(***************************************************************************)
(* SpecTwice: the normalizer called twice in a row on the same response,   *)
(* whose context is a list, a tuple or a one-shot iterator (a generator).  *)
(* list(raw) at components.py:311 and 319 exhausts a one-shot iterator.    *)
(***************************************************************************)
IterableKinds == {"list", "tuple", "iterator"}

\* The response as a call of the normalizer leaves it.
AfterListing(resp, kind) ==
    IF kind = "iterator" THEN [resp EXCEPT !.srcAttr = <<>>, !.srcKeys = NoSources]
    ELSE resp

InitTwice ==
    /\ Idle
    /\ arg \in [resp : {ChainResult("A", items) : items \in ItemLists(MaxItems)},
                kind : IterableKinds]
    /\ res = NotRun

FirstCall ==
    /\ res = NotRun
    /\ res' = [first |-> _extract_answer_and_sources(arg.resp, Unset), second |-> NotRun]
    /\ arg' = [arg EXCEPT !.resp = AfterListing(arg.resp, arg.kind)]
    /\ UNCHANGED mainVars

SecondCall ==
    /\ res # NotRun /\ res.second = NotRun
    /\ res' = [res EXCEPT !.second = _extract_answer_and_sources(arg.resp, Unset)]
    /\ arg' = [arg EXCEPT !.resp = AfterListing(arg.resp, arg.kind)]
    /\ UNCHANGED mainVars

SpecTwice == InitTwice /\ [][FirstCall \/ SecondCall]_vars

\* C13: the second of two calls in a row on the same response returns what
\* the first returned: the same text and the same source list.
C13_SecondCallSame ==
    (res # NotRun /\ res.second # NotRun) => res.second = res.first

(***************************************************************************)
(* SpecDept: detect_dept_listing applied to prompts over the department    *)
(* names, the list words, the employee words and an unrelated word, with a *)
(* department name or, as main.py:74 passes it, None.                      *)
(***************************************************************************)
Vocabulary ==
    {DeptHR, DeptSales, "kyuuka"} \cup ToSet(ListWords) \cup ToSet(EmployeeWords)

PromptsUpTo(n) == UNION {[1..m -> Vocabulary] : m \in 0..n}

InitDept ==
    /\ Idle
    /\ arg \in [prompt : PromptsUpTo(MaxPromptLen), dept_name : {DeptHR, DeptSales, None}]
    /\ res = NotRun

DetectDeptListing ==
    /\ res = NotRun
    /\ res' = detect_dept_listing(arg.prompt, arg.dept_name)
    /\ UNCHANGED <<mainVars, arg>>

SpecDept == InitDept /\ [][DetectDeptListing]_vars

Words(p) == UNION {SubstringsOf(p[i]) : i \in 1..Len(p)}

\* C8: given a target department name, a query is classified as a
\* department-listing request iff it contains that name and at least one
\* enumeration word and at least one person-collection word.
C8_DeptAndListAndEmployee ==
    (res # NotRun /\ arg.dept_name # None) =>
        /\ res.exc = NoExc
        /\ res.val <=> /\ arg.dept_name \in Words(arg.prompt)
                       /\ Words(arg.prompt) \cap ToSet(ListWords) # {}
                       /\ Words(arg.prompt) \cap ToSet(EmployeeWords) # {}

\* A prompt with the HR department's name, a list word and an employee word
\* was classified against the HR department as a roster request.
C8_Witness ==
    /\ res # NotRun
    /\ arg.dept_name = DeptHR
    /\ arg.prompt = <<DeptHR, "shain", "risuto">>
    /\ res = Ret(TRUE)

(***************************************************************************)
(* SpecRoster: both variants of the roster extractor, with min_rows=4 as   *)
(* at their call sites (components.py:101, main.py:80), over data roots of *)
(* CSV files with none, three, four or more matching rows.                 *)
(***************************************************************************)
CsvNames == <<"a.csv", "b.csv", "c.csv", "d.csv">>
RowCounts == {0} \cup ((MinRows - 1)..MaxRows)

FileKinds ==
    {[okEnc |-> ToSet(Encodings), deptCol |-> d, exact |-> x, partial |-> pt, other |-> 1,
      ragged |-> FALSE] : d \in BOOLEAN, x \in RowCounts, pt \in {0, 1}}
    \cup {[okEnc |-> {"cp932"}, deptCol |-> TRUE, exact |-> x, partial |-> 0, other |-> 1,
           ragged |-> FALSE] : x \in RowCounts}
    \cup {[okEnc |-> {"utf-8-sig", "cp932"}, deptCol |-> TRUE, exact |-> MinRows,
           partial |-> 0, other |-> 1, ragged |-> FALSE]}
    \cup {[okEnc |-> {}, deptCol |-> FALSE, exact |-> 0, partial |-> 0, other |-> 0,
           ragged |-> FALSE]}

WithPath(kind, path) ==
    [path |-> path, okEnc |-> kind.okEnc, deptCol |-> kind.deptCol, exact |-> kind.exact,
     partial |-> kind.partial, other |-> kind.other, ragged |-> kind.ragged]

DataRoots(n) ==
    UNION {{[i \in 1..m |-> WithPath(k[i], CsvNames[i])] : k \in [1..m -> FileKinds]} : m \in 0..n}

Ref(src) == [source |-> src, page |-> PNone, snippet |-> None]

\* The source lists given to the cited-sources variant: the files of the
\* root in order, in reverse order, after a PDF and a CSV that does not
\* exist, and with the first file cited by a path that is no longer valid.
SourceLists(root) ==
    LET refs == [i \in 1..Len(root) |-> Ref(root[i].path)]
    IN  {refs, Reverse(refs), <<Ref("b.pdf"), Ref("zz.csv")>> \o refs,
         <<Ref("/old/a.csv")>> \o Tail(<<Ref("b.pdf")>> \o refs)}

InitRoster ==
    /\ pc = "off" /\ mode = None /\ messages = <<>> /\ chat_message = <<>>
    /\ llm = NotRun /\ rendered = <<>> /\ exc = NoExc /\ ran = {}
    /\ fs \in DataRoots(MaxFiles)
    /\ arg = <<>>
    /\ res = NotRun

TryRenderDepartmentListing ==
    /\ res = NotRun
    /\ \E sources \in SourceLists(fs) :
          /\ arg' = sources
          /\ res' = [variant |-> "sources",
                     out |-> _try_render_department_listing(sources, DeptHR, MinRows, fs)]
    /\ UNCHANGED mainVars

RenderDepartmentListingFromDataRoot ==
    /\ res = NotRun
    /\ arg' = arg
    /\ res' = [variant |-> "root",
               out |-> render_department_listing_from_data_root(DeptHR, MinRows, fs)]
    /\ UNCHANGED mainVars

SpecRoster ==
    InitRoster /\ [][TryRenderDepartmentListing \/ RenderDepartmentListingFromDataRoot]_vars

\* The candidate files of the call, in the order the extractor tries them.
Candidates ==
    IF res.variant = "root" THEN fs
    ELSE LET names == SelectSeq([i \in 1..Len(arg) |-> arg[i].source], IsCsvName)
         IN  [i \in 1..Len(names) |->
                 IF names[i] \notin PathsOf(fs) /\ Basename(names[i]) \in PathsOf(fs)
                 THEN FileAt(fs, Basename(names[i]))
                 ELSE FileAt(fs, names[i])]

\* A file's matched row count: the rows of the HR department, by the
\* department column when there is one, else by containment in any cell.
HRRows(file) == IF file.deptCol THEN file.exact ELSE file.exact + file.partial
MeetsThreshold(file) == file.okEnc # {} /\ HRRows(file) >= 4

NoneBefore(c, i) == \A j \in 1..(i - 1) : ~MeetsThreshold(c[j])
TablesOf(out) == SelectSeq(out.events, LAMBDA e : e.ui = "dataframe")

C17_EncodingFallback ==
    res # NotRun =>
        LET c == Candidates
            out == res.out
        IN  \A i \in 1..Len(c) :
                LET used == EncodingUsed(c[i])
                    first == {k \in 1..Len(Encodings) : Encodings[k] \in c[i].okEnc}
                IN  /\ first = {} <=> used = None
                    /\ first # {} => used = Encodings[MinOf(first)]
                    /\ NoneBefore(c, i) =>
                          /\ Len(out.read) >= i /\ out.read[i] = c[i].path
                          /\ (first # {} /\ HRRows(c[i]) >= 4) =>
                                /\ out.ret
                                /\ TablesOf(out) =
                                       <<EvTable("dataframe", c[i].path, HRRows(c[i]))>>
                          /\ (first = {} /\ i = Len(c)) => ~out.ret

\* The data-root variant passed over a file that no encoding reads and
\* rendered the next one, which only cp932 reads.
C17_Witness ==
    /\ res # NotRun /\ res.variant = "root"
    /\ Len(fs) = 2
    /\ fs[1].okEnc = {} /\ fs[2].okEnc = {"cp932"} /\ HRRows(fs[2]) = 4
    /\ EncodingUsed(fs[2]) = "cp932"
    /\ res.out.ret
    /\ res.out.read = <<"a.csv", "b.csv">>
    /\ TablesOf(res.out) = <<EvTable("dataframe", "b.csv", 4)>>

(***************************************************************************)
(* SpecKeyword: the keyword fallback searcher applied to queries, blank    *)
(* ones included, and hit caps over data roots of CSV files; a file that   *)
(* is not UTF-8 makes its loader raise.                                    *)
(***************************************************************************)
Queries ==
    {<<>>, <<" ">>, <<" ", " ">>, <<DeptHR>>, <<" ", DeptHR, " ">>, <<"busho", DeptHR>>,
     <<"kyuuka">>}
MaxHitsVals == {0, 1, 2, 5}

KeywordKinds ==
    {[okEnc |-> ToSet(Encodings), deptCol |-> TRUE, exact |-> x, partial |-> 0, other |-> o,
      ragged |-> FALSE] : x \in 0..2, o \in {0, 1}}
    \cup {[okEnc |-> {"cp932"}, deptCol |-> TRUE, exact |-> 2, partial |-> 0, other |-> 0,
           ragged |-> FALSE]}

KeywordRoots(n) ==
    UNION {{[i \in 1..m |-> WithPath(k[i], CsvNames[i])] : k \in [1..m -> KeywordKinds]} :
              m \in 0..n}

InitKeyword ==
    /\ pc = "off" /\ mode = None /\ messages = <<>> /\ chat_message = <<>>
    /\ llm = NotRun /\ rendered = <<>> /\ exc = NoExc /\ ran = {}
    /\ fs \in KeywordRoots(MaxFiles)
    /\ arg = <<>>
    /\ res = NotRun

RenderKeywordSearchFallback ==
    /\ res = NotRun
    /\ \E query \in Queries, max_hits \in MaxHitsVals :
          /\ arg' = [query |-> query, max_hits |-> max_hits]
          /\ res' = render_keyword_search_fallback(query, max_hits, fs)
    /\ UNCHANGED mainVars

SpecKeyword == InitKeyword /\ [][RenderKeywordSearchFallback]_vars

\* The matching documents of the tree as (file, document) positions, in the
\* order of the walk; a file that does not load has none.
MatchesOf(i) ==
    IF "utf-8" \notin fs[i].okEnc THEN {}
    ELSE {d \in 1..Len(RowTexts(fs[i])) :
             Contains(LowerSeq(RowTexts(fs[i])[d]), LowerSeq(StripSeq(arg.query)))}
MatchesBefore(i, d) ==
    Cardinality({p \in (1..Len(fs)) \X (1..(MaxRows + 2)) :
                    /\ p[2] \in MatchesOf(p[1])
                    /\ (p[1] < i \/ (p[1] = i /\ p[2] <= d))})
TotalMatches == IF fs = <<>> THEN 0 ELSE MatchesBefore(Len(fs), MaxRows + 2)
HitsRendered ==
    IF \E i \in 1..Len(res.events) : res.events[i].ui = "sources"
    THEN (CHOOSE e \in ToSet(res.events) : e.ui = "sources").rows ELSE 0

\* The search stopped where its n-th hit was found: it loaded the files up
\* to the one of that hit and inspected that file's documents up to it; with
\* fewer than n matches it loaded every file and inspected every document.
StoppedAt(n) ==
    LET scan == res.scan
    IN  IF TotalMatches >= n
        THEN \E i \in 1..Len(fs) : \E d \in MatchesOf(i) :
                /\ MatchesBefore(i, d) = n
                /\ scan.loaded = [j \in 1..i |-> fs[j].path]
                /\ scan.inspected[i] = d
        ELSE /\ scan.loaded = [j \in 1..Len(fs) |-> fs[j].path]
             /\ \A j \in 1..Len(fs) :
                   scan.inspected[j] =
                       IF "utf-8" \in fs[j].okEnc THEN Len(RowTexts(fs[j])) ELSE 0

NonBlankSearch == res # NotRun /\ StripSeq(arg.query) # <<>>

\* C14 as stated: for every max_hits the searcher renders at most max_hits
\* hits and stops where the hit count reaches max_hits.
C14_AtMostMaxHits ==
    NonBlankSearch =>
        /\ HitsRendered <= arg.max_hits
        /\ Len(res.scan.hits) <= arg.max_hits

\* C14 amended: for every max_hits >= 1 the searcher renders at most max_hits
\* hits and stops where the hit count reaches max_hits; for max_hits < 1 it
\* renders at most one hit.
C14_AtMostMaxHitsFromOne ==
    NonBlankSearch =>
        /\ HitsRendered = Len(res.scan.hits)
        /\ arg.max_hits >= 1 =>
              /\ HitsRendered <= arg.max_hits
              /\ StoppedAt(arg.max_hits)
        /\ arg.max_hits < 1 => HitsRendered <= 1

\* With a cap of 2, two matching rows and a third row in the first file and
\* a matching row in the second: two hits were rendered, the third row was
\* not inspected and the second file was not loaded.
C14_Witness ==
    /\ NonBlankSearch /\ arg.max_hits = 2 /\ arg.query = <<DeptHR>>
    /\ Len(fs) = 2 /\ fs[1].exact = 2 /\ fs[1].other = 1 /\ TotalMatches >= 3
    /\ HitsRendered = 2
    /\ res.scan.loaded = <<"a.csv">>
    /\ res.scan.inspected = <<2>>

\* C15: a query that is empty or only whitespace gives failure without
\* raising: no file is loaded, nothing is rendered and there is no hit.
C15_BlankQueryFails ==
    (res # NotRun /\ \A i \in 1..Len(arg.query) : arg.query[i] = " ") =>
        /\ res.ret = FALSE
        /\ res.events = <<>>
        /\ res.scan.loaded = <<>>
        /\ res.scan.hits = <<>>

\* A whitespace-only query over a root with matching rows failed silently.
C15_Witness ==
    /\ res # NotRun /\ arg.query = <<" ", " ">>
    /\ fs # <<>> /\ \E i \in 1..Len(fs) : fs[i].exact > 0 /\ "utf-8" \in fs[i].okEnc
    /\ res.ret = FALSE /\ res.events = <<>>

(***************************************************************************)
(* The turn script, main.py:33-106.                                        *)
(*                                                                         *)
(* An error of the generator is the set of quota markers its message       *)
(* contains.  st.stop() ends the script run.                               *)
(***************************************************************************)
QuotaMarkers == {"insufficient_quota", "You exceeded your current quota", "Error code: 429"}
IsQuotaError(err) == err \cap QuotaMarkers # {}

\* components.py defines neither name: hasattr(cp, ...) at main.py:46 and 65
\* is false, and cp.get_department_from_prompt at main.py:79 does not exist.
HasUnrelatedClassifier == FALSE
HasGetDepartmentFromPrompt == FALSE

\* The off-topic classifier main.py:46 would call: keyword heuristics over
\* words that do not belong to the corpus (weather, small talk).
OffTopicWords == <<"tenki", "zatsudan">>
_looks_unrelated_to_corp_docs(prompt) == AnyIn(OffTopicWords, prompt)

OffTopicGuard(prompt) == HasUnrelatedClassifier /\ _looks_unrelated_to_corp_docs(prompt)

\* main.py:47-50, 67-70
FixedMessage(m) == IF m = ModeSearch THEN "FIXED_NO_RELATED_DOCS" ELSE NoAnswerMsg

User(content) == [role |-> "user", content |-> content]
Assistant(text) == [role |-> "assistant", content |-> <<text>>]

\* main.py:103
SafeContent(content) ==
    IF IsStr(content) /\ Strip(content) # "" THEN content ELSE "SOURCES_SHOWN_PLACEHOLDER"

\* main.py:61-93, the handler of an exception of the generator call:
\* [exc, events, ran].
ExceptHandler(prompt, m, err, root) ==
    IF OffTopicGuard(prompt) THEN
        [exc |-> NoExc, events |-> <<EvTable("warning", FixedMessage(m), 0)>>, ran |-> {}]
    ELSE LET d == detect_dept_listing(prompt, None)
         IN  IF d.exc # NoExc THEN [exc |-> d.exc, events |-> <<>>, ran |-> {}]
             ELSE IF d.val /\ IsQuotaError(err) THEN
                 IF ~HasGetDepartmentFromPrompt
                 THEN [exc |-> "AttributeError", events |-> <<>>, ran |-> {}]
                 ELSE LET r == render_department_listing_from_data_root(DeptHR, MinRows, root)
                      IN  [exc |-> NoExc,
                           events |-> r.events \o
                               (IF r.ret THEN <<>> ELSE <<Ev("warning_roster_failed")>>),
                           ran |-> {"roster_root"}]
             ELSE IF IsQuotaError(err) THEN
                 LET r == render_keyword_search_fallback(prompt, 5, root)
                 IN  [exc |-> NoExc,
                      events |-> r.events \o
                          (IF r.ret THEN <<>> ELSE <<EvTable("error", "generator_error", 0)>>),
                      ran |-> {"keyword"}]
             ELSE [exc |-> NoExc, events |-> <<EvTable("error", "generator_error", 0)>>,
                   ran |-> {}]

Prompts ==
    {<<DeptHR, "shain", "ichiran">>,
     <<DeptHR, "shain", "ichiran", "kankyou">>,
     <<DeptHR, "shain">>,
     <<DeptHR, "kankyou-houshin">>,
     <<"kankyou">>,
     <<"kyuuka">>,
     <<"tenki">>,
     <<DeptHR>>}

Answers == {"A", "", " ", "\"\"", "''", NoAnswerMsg, NoDocMatchMsg}
Contexts ==
    {<<>>,
     <<Document("b.pdf", PInt(1), "s1")>>,
     <<Document("a.csv", PNone, "s1"), Document("b.pdf", PInt(0), "s2")>>,
     <<Document("a.csv", PNone, "s1"), Document("b.csv", PNone, "s2")>>}
Responses == {ChainResult(a, c) : a \in Answers, c \in Contexts}
Errors == {{}, {"insufficient_quota"}, {"Error code: 429", "insufficient_quota"},
           {"You exceeded your current quota"}}

Csv(path, n) ==
    [path |-> path, okEnc |-> ToSet(Encodings), deptCol |-> TRUE, exact |-> n, partial |-> 0,
     other |-> 1, ragged |-> FALSE]
Roots ==
    {<<>>, <<Csv("a.csv", MinRows)>>, <<Csv("a.csv", MinRows - 1), Csv("b.csv", MinRows)>>,
     <<Csv("a.csv", MinRows - 1)>>}

Init ==
    /\ pc = "idle"
    /\ mode = ModeSearch
    /\ messages = <<>>
    /\ chat_message = <<>>
    /\ llm = NotRun
    /\ rendered = <<>>
    /\ exc = NoExc
    /\ ran = {}
    /\ fs \in Roots
    /\ arg = <<>>
    /\ res = NotRun

Turns(msgs) == Cardinality({i \in 1..Len(msgs) : msgs[i].role = "user"})

\* main.py:33-60: the user's message is logged, and the generator is called
\* unless the off-topic guard ends the turn with the fixed message.
UserInput ==
    /\ pc = "idle"
    /\ Turns(messages) < MaxTurns
    /\ \E msg \in Prompts, m \in {ModeSearch, ModeContact} :
          /\ chat_message' = msg
          /\ mode' = m
          /\ llm' = NotRun
          /\ exc' = NoExc
          /\ ran' = {}
          /\ IF OffTopicGuard(msg)
             THEN /\ rendered' = <<EvTable("warning", FixedMessage(m), 0)>>
                  /\ messages' = messages \o <<User(msg), Assistant(FixedMessage(m))>>
                  /\ pc' = "idle"
             ELSE /\ rendered' = <<>>
                  /\ messages' = Append(messages, User(msg))
                  /\ pc' = "llm"
    /\ UNCHANGED <<fs, arg, res>>

\* main.py:60, 95-106: the generator returns and the response is displayed.
GeneratorReturns ==
    /\ pc = "llm"
    /\ \E resp \in Responses :
          LET d == IF mode = ModeSearch THEN display_search_llm_response(resp)
                   ELSE display_contact_llm_response(resp, messages, fs)
          IN  /\ llm' = [kind |-> "response", resp |-> resp]
              /\ rendered' = d.events
              /\ exc' = d.exc
              /\ ran' = d.ran
              /\ messages' = IF d.exc = NoExc
                             THEN Append(messages, Assistant(SafeContent(d.content)))
                             ELSE messages
    /\ pc' = "idle"
    /\ UNCHANGED <<mode, chat_message, fs, arg, res>>

\* main.py:60-93: the generator raises.
GeneratorRaises ==
    /\ pc = "llm"
    /\ \E err \in Errors :
          LET h == ExceptHandler(chat_message, mode, err, fs)
          IN  /\ llm' = [kind |-> "error", err |-> err]
              /\ rendered' = h.events
              /\ exc' = h.exc
              /\ ran' = h.ran
    /\ pc' = "idle"
    /\ UNCHANGED <<mode, messages, chat_message, fs, arg, res>>

Next == UserInput \/ GeneratorReturns \/ GeneratorRaises

Spec == Init /\ [][Next]_vars

(***************************************************************************)
(* Properties of a turn.                                                   *)
(***************************************************************************)
TurnDone == pc = "idle" /\ llm # NotRun
GeneratorFailed == TurnDone /\ llm.kind = "error"
GeneratorAnswered == TurnDone /\ llm.kind = "response"

IsRosterRequest(p) ==
    /\ DeptHR \in Words(p)
    /\ Words(p) \cap ToSet(ListWords) # {}
    /\ Words(p) \cap ToSet(EmployeeWords) # {}
IsTopicRequest(p) == Words(p) \cap ToSet(EnvKeywords) # {}
IsOffTopic(p) == Words(p) \cap ToSet(OffTopicWords) # {}

\* The terminal outcome a UI call renders, "" for a call that renders none.
OutcomeOf(e) ==
    CASE e.ui = "markdown" -> "Answered"
      [] e.ui = "info_docs_found" -> "Answered"
      [] e.ui = "dataframe" -> "RosterRendered"
      [] e.ui = "info_search_hits" -> "SearchHitsRendered"
      [] e.ui = "env_fallback" -> "GenericFallback"
      [] e.ui = "warning" /\ e.path = "FIXED_NO_RELATED_DOCS" -> "GenericFallback"
      [] e.ui = "warning" -> "NoMatch"
      [] e.ui = "warning_roster_failed" -> "NoMatch"
      [] e.ui = "error" -> "Error"
      [] OTHER -> ""

Outcomes == {OutcomeOf(rendered[i]) : i \in 1..Len(rendered)} \ {""}

\* C1: an off-topic query whose generator call raises a quota error ends with
\* the fixed message, and neither the keyword search nor the roster
\* extractor runs.
C1_OffTopicQuotaFixedMessage ==
    (GeneratorFailed /\ IsQuotaError(llm.err) /\ IsOffTopic(chat_message)) =>
        /\ exc = NoExc
        /\ rendered = <<EvTable("warning", FixedMessage(mode), 0)>>
        /\ ran = {}

\* C2: an error without a quota marker is surfaced to the user as it is: no
\* fallback strategy runs and no other exception replaces it.
C2_OtherErrorSurfaced ==
    (GeneratorFailed /\ ~IsQuotaError(llm.err)) =>
        /\ exc = NoExc
        /\ rendered = <<EvTable("error", "generator_error", 0)>>
        /\ ran = {}

\* C3: on a quota error of a query that is not off-topic exactly one
\* recovery strategy runs: the roster extractor over the data root for a
\* department-listing request (RosterRendered or NoMatch), else the keyword
\* search (SearchHitsRendered, or the error surfaced when it finds nothing).
C3_QuotaErrorOneStrategy ==
    (GeneratorFailed /\ IsQuotaError(llm.err) /\ ~IsOffTopic(chat_message)) =>
        /\ exc = NoExc
        /\ IF IsRosterRequest(chat_message)
           THEN ran = {"roster_root"} /\ Outcomes \in {{"RosterRendered"}, {"NoMatch"}}
           ELSE ran = {"keyword"} /\ Outcomes \in {{"SearchHitsRendered"}, {"Error"}}

\* C4: every turn ends with exactly one terminal outcome rendered, whatever
\* the generator returned or raised.
C4_ExactlyOneOutcome ==
    TurnDone => exc = NoExc /\ Cardinality(Outcomes) = 1

\* The normalized result of the turn's response.
Result == _extract_answer_and_sources(llm.resp, <<RETRIEVAL_TOP_K>>)

\* The no-answer sentinel of a mode, and the EMPTY_ANSWER state of a text.
NoMatchMessage(m) == IF m = ModeSearch THEN NoDocMatchMsg ELSE NoAnswerMsg
EmptyAnswer(text, m) == IsBlank(text) \/ (IsStr(text) /\ Strip(text) = NoMatchMessage(m))

\* The CSV files the sources cite, as the data root holds them.
CitedCsv(sources) ==
    LET names == SelectSeq([i \in 1..Len(sources) |-> sources[i].source], IsCsvName)
    IN  {IF n \notin PathsOf(fs) /\ Basename(n) \in PathsOf(fs)
         THEN FileAt(fs, Basename(n)) ELSE FileAt(fs, n) : n \in ToSet(names)}

\* C5: in the contact mode, an empty or sentinel answer with sources tries
\* the roster only for a department-listing request; a rendered roster ends
\* the turn as RosterRendered without the generic fallback, even when the
\* query matches a topic keyword; otherwise a topic keyword gives
\* GenericFallback, and anything else NoMatch with the no-match message.  The
\* sources are displayed in all three cases.
C5_RosterThenGenericThenNoMatch ==
    (GeneratorAnswered /\ mode = ModeContact /\ Result.exc = NoExc
        /\ EmptyAnswer(Result.text, mode) /\ Result.sources # <<>>) =>
        LET wants == IsRosterRequest(chat_message)
            roster == wants /\ \E f \in CitedCsv(Result.sources) : MeetsThreshold(f)
            topic == IsTopicRequest(chat_message)
        IN  /\ exc = NoExc
            /\ "roster_sources" \in ran <=> wants
            /\ rendered[Len(rendered)] = EvTable("sources", None, Len(Result.sources))
            /\ roster => Outcomes = {"RosterRendered"} /\ "generic" \notin ran
            /\ ~roster /\ topic => Outcomes = {"GenericFallback"}
            /\ ~roster /\ ~topic =>
                  /\ Outcomes = {"NoMatch"}
                  /\ rendered[1] = EvTable("warning", NoAnswerMsg, 0)

\* A request for the HR roster that also names an environment topic got the
\* roster of a cited CSV file, and no generic fallback.
C5_Witness ==
    /\ GeneratorAnswered /\ mode = ModeContact
    /\ Result.exc = NoExc /\ EmptyAnswer(Result.text, mode) /\ Result.sources # <<>>
    /\ IsRosterRequest(chat_message) /\ IsTopicRequest(chat_message)
    /\ Outcomes = {"RosterRendered"}
    /\ ran = {"roster_sources"}

\* C6: an empty or sentinel answer without sources ends the turn, in both
\* modes, with the mode's no-match message and nothing else, and no fallback
\* strategy is tried.
C6_EmptyNoSourcesIsNoMatch ==
    (GeneratorAnswered /\ Result.exc = NoExc
        /\ EmptyAnswer(Result.text, mode) /\ Result.sources = <<>>) =>
        /\ exc = NoExc
        /\ ran = {}
        /\ \E i \in 1..Len(rendered) :
              rendered[i].ui \in {"warning", "markdown"} /\ rendered[i].path = NoMatchMessage(mode)
        /\ \A i \in 1..Len(rendered) :
              rendered[i].ui = "markdown" => rendered[i].path = NoMatchMessage(mode)

\* C20: a quoted empty answer ("" or '') with sources is handled as an empty
\* answer in both modes and never displayed as a normal answer: the search
\* mode shows the documents-found notice, the contact mode a roster, the
\* generic fallback or the no-match message.
C20_QuotedEmptyIsEmpty ==
    (GeneratorAnswered /\ Result.exc = NoExc /\ IsStr(Result.text)
        /\ Strip(Result.text) \in {"\"\"", "''"} /\ Result.sources # <<>>) =>
        /\ exc = NoExc
        /\ \A i \in 1..Len(rendered) : rendered[i].ui # "markdown"
        /\ mode = ModeSearch => rendered[1] = Ev("info_docs_found")
        /\ mode = ModeContact =>
              /\ Outcomes \subseteq {"RosterRendered", "GenericFallback", "NoMatch"}
              /\ Outcomes # {}

\* C21: when a turn has ended, whichever way, the conversation log is a
\* sequence of pairs: each user entry is followed by exactly one assistant
\* entry, whose content is not blank, before the next user entry.
C21_UserThenOneAssistant ==
    pc = "idle" =>
        /\ Len(messages) % 2 = 0
        /\ \A k \in 1..(Len(messages) \div 2) :
              /\ messages[2 * k - 1].role = "user"
              /\ messages[2 * k].role = "assistant"
              /\ ~IsBlank(messages[2 * k].content[1])

====
